---- MODULE Spec2Model ----
(***************************************************************************)
(* Model of digest.py: the NBER IO digest pipeline.                        *)
(*                                                                         *)
(* Text is modelled as a sequence of tokens.  The tokens the code treats   *)
(* specially are kept apart: the triple backtick, the "json" tag, the two  *)
(* whitespace characters, and the JSON punctuation.  Every other token is  *)
(* an opaque run of ordinary characters.                                   *)
(***************************************************************************)
EXTENDS Integers, Sequences, FiniteSets, TLC

VARIABLES
  pc,                \* where the run stands
  feed,              \* feed.entries, as feedparser returned them
  papers,            \* main's papers
  idx,               \* how many papers the for loop has taken
  papers_summaries,  \* main's papers_summaries
  log,               \* what the except branch printed: title and error
  calls,             \* history: each summarize_with_groq call and its outcome
  email_content,     \* build_email's return value
  sent,              \* history: each send_email call's (subject, body)
  raw_text,          \* parse_groq_json's argument (ParseSpec)
  shape,             \* how raw_text was put together (ParseSpec)
  parsed             \* parse_groq_json's outcome (ParseSpec)

vars == <<pc, feed, papers, idx, papers_summaries, log, calls, email_content, sent,
          raw_text, shape, parsed>>

(***************************************************************************)
(* Bounds of the model.                                                    *)
(***************************************************************************)
MaxPapers == 3
MaxEntries == 1
MaxPre == 2
MaxPost == 1
\* The feeds of the liveness check, which costs more per state.
MaxLivePapers == 2

(***************************************************************************)
(* Tokens.                                                                 *)
(***************************************************************************)
\* BT stands for the triple backtick (a backtick cannot be written in a string).
BT == "<fence>"
TAG == "json"
SP == " "
NL == "\n"
LB == "{"
RB == "}"
QT == "\""
COLON == ":"
COMMA == ","

IsSpace(c) == c \in {SP, NL}

Min(S) == CHOOSE x \in S : \A y \in S : x <= y

\* The first position at or after p that holds no whitespace (Len(t)+1 at the end).
SkipSpace(t, p) ==
  Min({q \in p..(Len(t) + 1) : IF q <= Len(t) THEN ~IsSpace(t[q]) ELSE TRUE})

\* str.strip()
Strip(t) ==
  LET keep == {k \in 1..Len(t) : ~IsSpace(t[k])}
  IN IF keep = {} THEN <<>>
     ELSE SubSeq(t, Min(keep), CHOOSE x \in keep : \A y \in keep : y <= x)

RECURSIVE Flatten(_)
Flatten(ss) == IF ss = <<>> THEN <<>> ELSE Head(ss) \o Flatten(Tail(ss))

(***************************************************************************)
(* re.search(FENCE_PATTERN, raw_text, flags=re.DOTALL), where the pattern  *)
(* is: fence, optional json tag, whitespace, group 1 = a lazy brace-to-     *)
(* brace run, whitespace, fence.                                           *)
(***************************************************************************)
\* What "." matches between positions a and b: with re.DOTALL, everything.
DotMatches(t, a, b) == TRUE

\* The ends e of group 1 for a group starting at g: t[e] is a closing brace
\* that optional whitespace and a closing fence follow.
GroupEnds(t, g) ==
  {e \in (g + 1)..Len(t) :
     /\ t[e] = RB
     /\ DotMatches(t, g + 1, e - 1)
     /\ LET q == SkipSpace(t, e + 1) IN q <= Len(t) /\ t[q] = BT}

\* The lazy quantifier .*? takes the shortest group that lets the rest match.
GroupEnd(t, g) == Min(GroupEnds(t, g))

\* Where group 1 starts for a match starting at position s (0: no match at s).
GroupStart(t, s) ==
  IF t[s] # BT THEN 0
  ELSE LET a == IF s + 1 <= Len(t) /\ t[s + 1] = TAG THEN s + 2 ELSE s + 1
           g == SkipSpace(t, a)
       IN IF g <= Len(t) /\ t[g] = LB /\ GroupEnds(t, g) # {} THEN g ELSE 0

\* re.search: the leftmost start that matches.
re_search(t) ==
  LET starts == {s \in 1..Len(t) : GroupStart(t, s) # 0}
  IN IF starts = {} THEN [found |-> FALSE, group |-> <<>>]
     ELSE LET g == GroupStart(t, Min(starts))
          IN [found |-> TRUE, group |-> SubSeq(t, g, GroupEnd(t, g))]

(***************************************************************************)
(* JSON values as Python holds them after json.loads.  A dict is the       *)
(* sequence of its (key, value) items in insertion order.                  *)
(***************************************************************************)
PyStr(s) == [kind |-> "str", s |-> s, items |-> <<>>]
PyInt(s) == [kind |-> "int", s |-> s, items |-> <<>>]
PyNone == [kind |-> "None", s |-> <<>>, items |-> <<>>]
PyDict(items) == [kind |-> "dict", s |-> <<>>, items |-> items]

Digits == {"1", "42"}

HasKey(items, k) == \E n \in 1..Len(items) : items[n][1] = k

\* dict[k] = v: a repeated key keeps its place and takes the last value.
SetItem(items, k, v) ==
  IF HasKey(items, k)
  THEN [n \in 1..Len(items) |-> IF items[n][1] = k THEN <<k, v>> ELSE items[n]]
  ELSE Append(items, <<k, v>>)

(***************************************************************************)
(* json.loads(json_text)                                                   *)
(***************************************************************************)
JsonFail == [ok |-> FALSE, val |-> PyNone, pos |-> 0]

\* A string literal starting at the quote t[p]: no escapes; a raw newline
\* inside a string is a control character, which the decoder rejects.
ParseString(t, p) ==
  LET ends == {e \in (p + 1)..Len(t) : t[e] = QT}
  IN IF ends = {} THEN JsonFail
     ELSE LET e == Min(ends)
          IN IF \E k \in (p + 1)..(e - 1) : t[k] = NL THEN JsonFail
             ELSE [ok |-> TRUE, val |-> PyStr(SubSeq(t, p + 1, e - 1)), pos |-> e + 1]

RECURSIVE ParseValue(_, _)
RECURSIVE ParseMembers(_, _, _)

\* A value starting at the non-space position p.
ParseValue(t, p) ==
  IF p > Len(t) THEN JsonFail
  ELSE IF t[p] = LB
  THEN LET q == SkipSpace(t, p + 1)
       IN IF q <= Len(t) /\ t[q] = RB
          THEN [ok |-> TRUE, val |-> PyDict(<<>>), pos |-> q + 1]
          ELSE ParseMembers(t, q, <<>>)
  ELSE IF t[p] = QT THEN ParseString(t, p)
  ELSE IF t[p] \in Digits THEN [ok |-> TRUE, val |-> PyInt(<<t[p]>>), pos |-> p + 1]
  ELSE IF t[p] = "null" THEN [ok |-> TRUE, val |-> PyNone, pos |-> p + 1]
  ELSE JsonFail

\* The members of an object from the non-space position p, where a key is due.
ParseMembers(t, p, items) ==
  IF p > Len(t) \/ t[p] # QT THEN JsonFail
  ELSE LET k == ParseString(t, p)
       IN IF ~k.ok THEN JsonFail
          ELSE LET c == SkipSpace(t, k.pos)
               IN IF c > Len(t) \/ t[c] # COLON THEN JsonFail
                  ELSE LET v == ParseValue(t, SkipSpace(t, c + 1))
                       IN IF ~v.ok THEN JsonFail
                          ELSE LET n == SkipSpace(t, v.pos)
                                   items2 == SetItem(items, k.val.s, v.val)
                               IN IF n > Len(t) THEN JsonFail
                                  ELSE IF t[n] = RB
                                  THEN [ok |-> TRUE, val |-> PyDict(items2), pos |-> n + 1]
                                  ELSE IF t[n] = COMMA
                                  THEN ParseMembers(t, SkipSpace(t, n + 1), items2)
                                  ELSE JsonFail

\* json.loads: one value, whitespace around it, nothing else.
json_loads(t) ==
  LET v == ParseValue(t, SkipSpace(t, 1))
  IN IF v.ok /\ SkipSpace(t, v.pos) = Len(t) + 1
     THEN [raised |-> "", value |-> v.val]
     ELSE [raised |-> "JSONDecodeError", value |-> PyNone]

(***************************************************************************)
(* parse_groq_json(raw_text)                                               *)
(***************************************************************************)
json_text(t) ==
  LET match == re_search(t)
  IN IF match.found THEN match.group ELSE Strip(t)

parse_groq_json(t) == json_loads(json_text(t))

(***************************************************************************)
(* The model's replies: what chat_completion.choices[0].message.content    *)
(* may hold.  A reply is built from a JSON value, written out with one of  *)
(* three whitespace styles, and the prose or fence around it.              *)
(***************************************************************************)
RECURSIVE JoinWith(_, _)
JoinWith(ss, sep) ==
  IF ss = <<>> THEN <<>>
  ELSE IF Len(ss) = 1 THEN ss[1]
  ELSE ss[1] \o sep \o JoinWith(Tail(ss), sep)

RECURSIVE json_dumps(_, _)
json_dumps(v, w) ==
  IF v.kind = "dict"
  THEN <<LB>> \o w
       \o JoinWith([n \in 1..Len(v.items) |->
                      <<QT>> \o v.items[n][1] \o <<QT, COLON>> \o w
                      \o json_dumps(v.items[n][2], w)],
                   <<COMMA>> \o w)
       \o w \o <<RB>>
  ELSE IF v.kind = "str" THEN <<QT>> \o v.s \o <<QT>>
  ELSE IF v.kind = "int" THEN v.s
  ELSE <<"null">>

WhiteSpaces == {<<>>, <<SP>>, <<NL>>}
Tags == {<<>>, <<TAG>>}

Q == PyStr(<<"Q">>)
SchemaFields == <<"research_question", "method", "data", "main_result">>
FullObject ==
  PyDict(<< <<(<<"research_question">>), Q>>, <<(<<"method">>), PyStr(<<"M">>)>>,
            <<(<<"data">>), PyStr(<<"D">>)>>, <<(<<"main_result">>), PyStr(<<"R">>)>> >>)

EmbeddedObjects ==
  { PyDict(<<>>),
    PyDict(<< <<(<<"method">>), Q>> >>),
    FullObject,
    PyDict(<< <<(<<"data">>), PyDict(<< <<(<<"source">>), Q>> >>)>>, <<(<<"method">>), Q>> >>),
    PyDict(<< <<(<<"method">>), PyStr(<<"use", RB, BT>>)>> >>),
    PyDict(<< <<(<<"data">>), PyNone>>, <<(<<"n">>), PyInt(<<"42">>)>> >>) }

BareValues ==
  EmbeddedObjects \cup {PyInt(<<"1">>), PyNone, Q, PyStr(<<BT, LB, RB, BT>>)}

ProseTokens == {"Sure", BT, LB, RB}

SeqsUpTo(S, n) == UNION {[1..k -> S] : k \in 0..n}

Refusals == {<<"Sorry">>, <<"Sorry", SP, "no">>}

NoShape == [kind |-> "none", pre |-> <<>>, post |-> <<>>, tag |-> <<>>,
            ws |-> <<>>, value |-> PyNone]
NotParsed == [raised |-> "not called", value |-> PyNone]
NoEmail == [subject |-> <<>>, body |-> <<>>]

\* The text of a reply of each shape.
ReplyText(sh) ==
  LET text == json_dumps(sh.value, sh.ws)
      cut == SubSeq(text, 1, Len(text) - 1)
  IN CASE sh.kind = "fenced" ->
            sh.pre \o <<BT>> \o sh.tag \o sh.ws \o text \o sh.ws \o <<BT>> \o sh.post
       [] sh.kind = "bare" -> sh.pre \o text \o sh.post
       [] sh.kind = "unbalanced fenced" ->
            <<BT>> \o sh.tag \o sh.ws \o cut \o sh.ws \o <<BT>>
       [] sh.kind = "unbalanced bare" -> cut
       [] sh.kind = "trailing prose" -> text \o sh.post
       [] sh.kind = "refusal" -> sh.pre

ReplyShapes ==
  {[kind |-> "fenced", pre |-> a, post |-> b, tag |-> g, ws |-> w, value |-> v] :
       a \in SeqsUpTo(ProseTokens, MaxPre), b \in SeqsUpTo(ProseTokens, MaxPost),
       g \in Tags, w \in WhiteSpaces, v \in EmbeddedObjects}
  \cup
  {[kind |-> "bare", pre |-> a, post |-> b, tag |-> <<>>, ws |-> w, value |-> v] :
       a \in WhiteSpaces, b \in WhiteSpaces, w \in WhiteSpaces, v \in BareValues}
  \cup
  {[kind |-> k, pre |-> <<>>, post |-> <<>>, tag |-> g, ws |-> w, value |-> v] :
       k \in {"unbalanced fenced", "unbalanced bare"},
       g \in Tags, w \in WhiteSpaces, v \in EmbeddedObjects}
  \cup
  {[kind |-> "trailing prose", pre |-> <<>>, post |-> b, tag |-> <<>>, ws |-> w, value |-> v] :
       b \in SeqsUpTo(ProseTokens, MaxPost + 1) \ {<<>>}, w \in WhiteSpaces, v \in BareValues}
  \cup
  {[kind |-> "refusal", pre |-> a, post |-> <<>>, tag |-> <<>>, ws |-> <<>>, value |-> PyNone] :
       a \in Refusals}

(***************************************************************************)
(* parse_groq_json as a pure function: a reply is drawn, then parsed.      *)
(***************************************************************************)
ParseInit ==
  /\ shape \in ReplyShapes
  /\ raw_text = ReplyText(shape)
  /\ parsed = NotParsed
  /\ pc = "parse"
  /\ feed = <<>> /\ papers = <<>> /\ idx = 0 /\ papers_summaries = <<>>
  /\ log = <<>> /\ calls = <<>> /\ email_content = NoEmail /\ sent = <<>>

Parse ==
  /\ pc = "parse"
  /\ parsed' = parse_groq_json(raw_text)
  /\ pc' = "parsed"
  /\ UNCHANGED <<feed, papers, idx, papers_summaries, log, calls, email_content,
                 sent, raw_text, shape>>

ParseSpec == ParseInit /\ [][Parse]_vars

(***************************************************************************)
(* fetch_new_io_papers                                                     *)
(***************************************************************************)
HtmlTags == {"<p>", "</p>"}

\* BeautifulSoup(html_text).get_text(strip=True): the tags go, each text node
\* is stripped, and a node of whitespace alone leaves nothing.
clean_html(html_text) == SelectSeq(html_text, LAMBDA c : c \notin HtmlTags /\ ~IsSpace(c))

fetch_new_io_papers(entries) ==
  [k \in 1..Len(entries) |->
     [title |-> entries[k].title, url |-> entries[k].link,
      abstract |-> clean_html(entries[k].summary)]]

FeedEntries ==
  { [title |-> <<"T1">>, link |-> <<"U1">>, summary |-> <<"<p>", "We study", "</p>", NL>>],
    [title |-> <<"T2">>, link |-> <<"U2">>, summary |-> <<"Abstract">>] }

(***************************************************************************)
(* summarize_with_groq: the client call raises, or its reply is parsed.    *)
(***************************************************************************)
\* What client.chat.completions.create and choices[0] can raise.
ClientErrors == {"APIError", "IndexError"}

\* The replies of a run: a fenced object, a bare object with missing and
\* extra keys, bare JSON that is no object, unbalanced braces, a refusal.
Replies ==
  { ReplyText([kind |-> "fenced", pre |-> <<"Sure">>, post |-> <<>>, tag |-> <<TAG>>,
               ws |-> <<NL>>, value |-> FullObject]),
    ReplyText([kind |-> "bare", pre |-> <<>>, post |-> <<NL>>, tag |-> <<>>, ws |-> <<>>,
               value |-> PyDict(<< <<(<<"method">>), Q>>, <<(<<"notes">>), Q>> >>)]),
    ReplyText([kind |-> "bare", pre |-> <<>>, post |-> <<>>, tag |-> <<>>, ws |-> <<>>,
               value |-> PyInt(<<"42">>)]),
    ReplyText([kind |-> "unbalanced bare", pre |-> <<>>, post |-> <<>>, tag |-> <<>>,
               ws |-> <<>>, value |-> FullObject]),
    <<"Sorry">> }

ClientAnswers ==
  {[raised |-> e, content |-> <<>>] : e \in ClientErrors}
  \cup {[raised |-> "", content |-> r] : r \in Replies}

summarize_with_groq(answer) ==
  IF answer.raised # "" THEN [raised |-> answer.raised, value |-> PyNone]
  ELSE parse_groq_json(answer.content)

\* What summary = summarize_with_groq(paper) can do: return a value or raise.
CallOutcomes == {summarize_with_groq(answer) : answer \in ClientAnswers}

(***************************************************************************)
(* build_email                                                             *)
(***************************************************************************)
RECURSIVE py_repr(_)
py_repr(v) ==
  IF v.kind = "dict"
  THEN <<LB>>
       \o JoinWith([n \in 1..Len(v.items) |->
                      <<"'">> \o v.items[n][1] \o <<"'", COLON, SP>>
                      \o py_repr(v.items[n][2])],
                   <<COMMA, SP>>)
       \o <<RB>>
  ELSE IF v.kind = "str" THEN <<"'">> \o v.s \o <<"'">>
  ELSE IF v.kind = "int" THEN v.s
  ELSE <<"None">>

\* What an f-string writes for {value}.
py_str(v) == IF v.kind = "str" THEN v.s ELSE py_repr(v)

\* Variant: summary.get(key) or default, which also replaces a None value.
dict_get_Falsy(summary, key, default) ==
  IF HasKey(summary.items, key)
     /\ summary.items[CHOOSE n \in 1..Len(summary.items) : summary.items[n][1] = key][2] # PyNone
  THEN summary.items[CHOOSE n \in 1..Len(summary.items) : summary.items[n][1] = key][2]
  ELSE default

\* summary.get(key, default), summary a dict
dict_get(summary, key, default) ==
  IF HasKey(summary.items, key)
  THEN summary.items[CHOOSE n \in 1..Len(summary.items) : summary.items[n][1] = key][2]
  ELSE default

NotAvailable == PyStr(<<"N/A">>)

FieldLine(label, summary, key) == <<label>> \o py_str(dict_get(summary, <<key>>, NotAvailable))

\* Variant: the block ends with an empty string instead of "\n".
block_lines_EmptySeparator(i, ps) ==
  << <<ToString(i), ". ">> \o ps.paper.title,
     <<"URL: ">> \o ps.paper.url,
     FieldLine("Research question: ", ps.summary, "research_question"),
     FieldLine("Method: ", ps.summary, "method"),
     FieldLine("Data: ", ps.summary, "data"),
     FieldLine("Main result: ", ps.summary, "main_result"),
     <<>> >>

\* What one turn of the for loop appends to body_lines.
block_lines(i, ps) ==
  << <<ToString(i), ". ">> \o ps.paper.title,
     <<"URL: ">> \o ps.paper.url,
     FieldLine("Research question: ", ps.summary, "research_question"),
     FieldLine("Method: ", ps.summary, "method"),
     FieldLine("Data: ", ps.summary, "data"),
     FieldLine("Main result: ", ps.summary, "main_result"),
     <<NL>> >>

\* Variant: enumerate(papers_summaries) without the start of 1.
body_lines_FromZero(papers_summaries_) ==
  << <<"This week's NBER Industrial Organization papers:", NL>> >>
  \o Flatten([i \in 1..Len(papers_summaries_) |-> block_lines(i - 1, papers_summaries_[i])])

body_lines(papers_summaries_) ==
  << <<"This week's NBER Industrial Organization papers:", NL>> >>
  \o Flatten([i \in 1..Len(papers_summaries_) |-> block_lines(i, papers_summaries_[i])])

\* Variant: the subject counts the lines of the body.
build_email_CountsLines(papers_summaries_) ==
  IF papers_summaries_ = <<>>
  THEN [raised |-> "",
        subject |-> <<"NBER IO Digest: No new papers this week">>,
        body |-> <<"There are no new Industrial Organization papers this week.">>]
  ELSE IF \E i \in 1..Len(papers_summaries_) : papers_summaries_[i].summary.kind # "dict"
  THEN [raised |-> "AttributeError", subject |-> <<>>, body |-> <<>>]
  ELSE [raised |-> "",
        subject |-> <<"NBER IO Digest: ", ToString(Len(body_lines(papers_summaries_))),
                      " new papers">>,
        body |-> JoinWith(body_lines(papers_summaries_), <<NL>>)]

\* Variant: no case of its own for the empty list.
build_email_NoEmptyCase(papers_summaries_) ==
  IF \E i \in 1..Len(papers_summaries_) : papers_summaries_[i].summary.kind # "dict"
  THEN [raised |-> "AttributeError", subject |-> <<>>, body |-> <<>>]
  ELSE [raised |-> "",
        subject |-> <<"NBER IO Digest: ", ToString(Len(papers_summaries_)), " new papers">>,
        body |-> JoinWith(body_lines(papers_summaries_), <<NL>>)]

build_email(papers_summaries_) ==
  IF papers_summaries_ = <<>>
  THEN [raised |-> "",
        subject |-> <<"NBER IO Digest: No new papers this week">>,
        body |-> <<"There are no new Industrial Organization papers this week.">>]
  ELSE IF \E i \in 1..Len(papers_summaries_) : papers_summaries_[i].summary.kind # "dict"
  THEN [raised |-> "AttributeError", subject |-> <<>>, body |-> <<>>]
  ELSE [raised |-> "",
        subject |-> <<"NBER IO Digest: ", ToString(Len(papers_summaries_)), " new papers">>,
        body |-> JoinWith(body_lines(papers_summaries_), <<NL>>)]

(***************************************************************************)
(* main                                                                    *)
(***************************************************************************)
Init ==
  /\ pc = "fetch"
  /\ feed = <<>> /\ papers = <<>> /\ idx = 0 /\ papers_summaries = <<>>
  /\ log = <<>> /\ calls = <<>> /\ email_content = NoEmail /\ sent = <<>>
  /\ raw_text = <<>> /\ shape = NoShape /\ parsed = NotParsed

\* papers = fetch_new_io_papers(); papers_summaries = []
FetchUpTo(n) ==
  /\ pc = "fetch"
  /\ \E entries \in SeqsUpTo(FeedEntries, n) :
       /\ feed' = entries
       /\ papers' = fetch_new_io_papers(entries)
  /\ pc' = "loop"
  /\ UNCHANGED <<idx, papers_summaries, log, calls, email_content, sent,
                 raw_text, shape, parsed>>

Fetch == FetchUpTo(MaxPapers)

\* feedparser or an entry without a title, link or summary raises.
FetchRaises ==
  /\ pc = "fetch"
  /\ pc' = "fetch failed"
  /\ UNCHANGED <<feed, papers, idx, papers_summaries, log, calls, email_content, sent,
                 raw_text, shape, parsed>>

\* Variant: except (json.JSONDecodeError, APIError), the two errors foreseen.
Catches_OnlyExpected(error) == error \in {"JSONDecodeError", "APIError"}

\* except Exception as e: every error summarize_with_groq raises is one.
Catches(error) == TRUE

\* Variant: papers_summaries.insert(0, ...)
append_front(list, entry) == <<entry>> \o list

\* papers_summaries.append({"paper": paper, "summary": summary})
append_summary(list, entry) == Append(list, entry)

\* One turn of the for loop.
Summarize ==
  /\ pc = "loop"
  /\ idx < Len(papers)
  /\ \E out \in CallOutcomes :
       LET paper == papers[idx + 1]
       IN /\ calls' = Append(calls, [paper |-> paper, raised |-> out.raised,
                                     value |-> out.value])
          /\ IF out.raised = ""
             THEN /\ papers_summaries' =
                       append_summary(papers_summaries, [paper |-> paper, summary |-> out.value])
                  /\ idx' = idx + 1
                  /\ UNCHANGED <<pc, log>>
             ELSE IF Catches(out.raised)
             THEN /\ log' = Append(log, [title |-> paper.title, error |-> out.raised])
                  /\ idx' = idx + 1
                  /\ UNCHANGED <<pc, papers_summaries>>
             ELSE /\ pc' = "loop failed"
                  /\ UNCHANGED <<idx, papers_summaries, log>>
  /\ UNCHANGED <<feed, papers, email_content, sent, raw_text, shape, parsed>>

\* The for loop has no paper left.
LoopDone ==
  /\ pc = "loop"
  /\ idx = Len(papers)
  /\ pc' = "build"
  /\ UNCHANGED <<feed, papers, idx, papers_summaries, log, calls, email_content, sent,
                 raw_text, shape, parsed>>

\* email_content = build_email(papers_summaries)
BuildEmail ==
  /\ pc = "build"
  /\ LET r == build_email(papers_summaries)
     IN IF r.raised = ""
        THEN /\ email_content' = [subject |-> r.subject, body |-> r.body]
             /\ pc' = "send"
        ELSE /\ pc' = "build failed"
             /\ UNCHANGED email_content
  /\ UNCHANGED <<feed, papers, idx, papers_summaries, log, calls, sent,
                 raw_text, shape, parsed>>

\* Variant: the build and the send indented into the for loop.
SendEmail_InLoop ==
  /\ pc \in {"loop", "send"}
  /\ Len(sent) <= idx
  /\ sent' = Append(sent, IF pc = "send" THEN email_content
                          ELSE [subject |-> build_email(papers_summaries).subject,
                                body |-> build_email(papers_summaries).body])
  /\ pc' = IF pc = "send" THEN "done" ELSE pc
  /\ UNCHANGED <<feed, papers, idx, papers_summaries, log, calls, email_content,
                 raw_text, shape, parsed>>

\* send_email(email_content["subject"], email_content["body"])
SendEmail ==
  /\ pc = "send"
  /\ sent' = Append(sent, email_content)
  /\ pc' = "done"
  /\ UNCHANGED <<feed, papers, idx, papers_summaries, log, calls, email_content,
                 raw_text, shape, parsed>>

\* smtplib raises: the connection, the login or the submission fails.
SendRaises ==
  /\ pc = "send"
  /\ pc' = "send failed"
  /\ UNCHANGED <<feed, papers, idx, papers_summaries, log, calls, email_content, sent,
                 raw_text, shape, parsed>>

Next ==
  \/ Fetch
  \/ FetchRaises
  \/ Summarize
  \/ LoopDone
  \/ BuildEmail
  \/ SendEmail
  \/ SendRaises

Spec == Init /\ [][Next]_vars

\* The same run over the shorter feeds of the liveness check.
FetchLive == FetchUpTo(MaxLivePapers)

NextLive ==
  \/ FetchLive
  \/ FetchRaises
  \/ Summarize
  \/ LoopDone
  \/ BuildEmail
  \/ SendEmail
  \/ SendRaises

\* A sequential program: a step that can be taken is taken.  The client call
\* returns or raises.
FairSpec == Init /\ [][NextLive]_vars /\ WF_vars(NextLive)

(***************************************************************************)
(* build_email as a pure function: a list of entries is drawn, then        *)
(* composed.                                                               *)
(***************************************************************************)
FieldValues == {PyStr(<<"v">>), NotAvailable}

\* A choice per key: PyNone for a key left out, or the value it holds.
Mappings ==
  { LET keys == SchemaFields \o <<"notes">>
        present == SelectSeq([n \in 1..5 |-> n], LAMBDA n : c[n] # PyNone)
    IN PyDict([n \in 1..Len(present) |-> <<(<<keys[present[n]]>>), c[present[n]]>>])
    : c \in [1..5 -> FieldValues \cup {PyNone}] }

Summaries ==
  Mappings \cup
  { PyInt(<<"42">>),
    PyDict(<< <<(<<"main_result">>), PyNone>>, <<(<<"method">>), PyInt(<<"1">>)>>,
              <<(<<"research_question">>), PyDict(<< <<(<<"a">>), Q>> >>)>> >>) }

\* The k-th entry's paper: the feed's two entries in turn.
EntryPaper(k) ==
  fetch_new_io_papers(<<CHOOSE e \in FeedEntries : (e.title = <<"T1">>) <=> (k % 2 = 1)>>)[1]

\* The lists of up to MaxEntries entries.
EntryList(n, m) == [k \in 1..n |-> [paper |-> EntryPaper(k), summary |-> m[k]]]

EmailInit ==
  /\ pc = "build"
  /\ \E n \in 0..MaxEntries : \E m \in [1..n -> Summaries] :
       papers_summaries = EntryList(n, m)
  /\ feed = <<>> /\ papers = <<>> /\ idx = 0
  /\ log = <<>> /\ calls = <<>> /\ email_content = NoEmail /\ sent = <<>>
  /\ raw_text = <<>> /\ shape = NoShape /\ parsed = NotParsed

EmailSpec == EmailInit /\ [][BuildEmail]_vars

(***************************************************************************)
(* C4: parse_groq_json on the tolerated reply shapes.                      *)
(***************************************************************************)
\* t holds an opening fence: a triple backtick, an optional json tag and
\* optional whitespace, then an opening brace.
OpensFence(t) ==
  \E s \in 1..Len(t) :
    /\ t[s] = BT
    /\ LET a == IF s + 1 <= Len(t) /\ t[s + 1] = TAG THEN s + 2 ELSE s + 1
           g == SkipSpace(t, a)
       IN g <= Len(t) /\ t[g] = LB

\* t holds a closing brace that optional whitespace and a triple backtick follow.
ClosesEarly(t) ==
  \E e \in 1..Len(t) :
    /\ t[e] = RB
    /\ LET q == SkipSpace(t, e + 1) IN q <= Len(t) /\ t[q] = BT

Returned(v) == [raised |-> "", value |-> v]

Unbalanced == {"unbalanced fenced", "unbalanced bare"}

\* C4 as stated: every fenced object, with arbitrary prose around the fence,
\* parses to the embedded object; bare JSON parses to its value; malformed
\* replies raise.
C4_AnyProseAnyObject ==
  pc = "parsed" =>
    /\ shape.kind = "fenced" => parsed = Returned(shape.value)
    /\ shape.kind = "bare" /\ ~OpensFence(raw_text) => parsed = Returned(shape.value)
    /\ shape.kind \in Unbalanced => parsed.raised = "JSONDecodeError"
    /\ shape.kind \in {"trailing prose", "refusal"} /\ ~OpensFence(raw_text)
         => parsed.raised = "JSONDecodeError"

\* C4, the shapes the pattern handles: a fenced object parses to the embedded object when the prose
\* before the fence holds no opening fence of its own and the object's text
\* holds no closing brace followed by a triple backtick; a reply without any
\* opening fence that is bare JSON parses to that value; a reply with
\* unbalanced braces, and a reply without any opening fence that is bare JSON
\* followed by prose or a refusal, raises and returns no value.
C4_ParseToleratedShapes ==
  pc = "parsed" =>
    /\ ( /\ shape.kind = "fenced"
         /\ ~OpensFence(shape.pre)
         /\ ~ClosesEarly(json_dumps(shape.value, shape.ws)) )
         => parsed = Returned(shape.value)
    /\ shape.kind = "bare" /\ ~OpensFence(raw_text) => parsed = Returned(shape.value)
    /\ shape.kind \in Unbalanced => parsed = [raised |-> "JSONDecodeError", value |-> PyNone]
    /\ shape.kind \in {"trailing prose", "refusal"} /\ ~OpensFence(raw_text)
         => parsed = [raised |-> "JSONDecodeError", value |-> PyNone]

C4_Witness ==
  /\ pc = "parsed"
  /\ shape.kind = "fenced" /\ shape.value = FullObject
  /\ shape.pre = <<"Sure", RB>> /\ shape.post = <<BT>> /\ shape.ws = <<NL>>
  /\ shape.tag = <<TAG>>
  /\ parsed = Returned(FullObject)

(***************************************************************************)
(* Reading a body back as lines, and the run's history.                    *)
(***************************************************************************)
\* body.split("\n")
SplitLines(t) ==
  LET nl == SelectSeq([k \in 1..Len(t) |-> k], LAMBDA k : t[k] = NL)
  IN [j \in 1..(Len(nl) + 1) |->
        SubSeq(t, IF j = 1 THEN 1 ELSE nl[j - 1] + 1,
                  IF j = Len(nl) + 1 THEN Len(t) ELSE nl[j] - 1)]

\* A numbered title line: "<i>. <title>".
IsNumbered(line) == Len(line) >= 2 /\ line[2] = ". "

\* Where the numbered title lines stand among the lines, in order.
BlockStarts(lines) ==
  SelectSeq([k \in 1..Len(lines) |-> k], LAMBDA k : IsNumbered(lines[k]))

\* build_email has returned a Report.
Built == pc \in {"send", "done", "send failed"}

\* The calls that returned and those that raised, in call order.
Succeeded == SelectSeq(calls, LAMBDA c : c.raised = "")
Failed == SelectSeq(calls, LAMBDA c : c.raised # "")

NoPapersReport ==
  [subject |-> <<"NBER IO Digest: No new papers this week">>,
   body |-> <<"There are no new Industrial Organization papers this week.">>]

Labels == <<"Research question: ", "Method: ", "Data: ", "Main result: ">>

(***************************************************************************)
(* C1: batch isolation in main's loop.                                     *)
(***************************************************************************)
\* C1: whatever each call does (returns, or raises a parse error, a client
\* error or any other exception), no exception leaves the loop, the records
\* are attempted once each in input order, papers_summaries is exactly the
\* records whose call returned, in their order, and a failed record leaves
\* only a log line with its title.
C1_BatchIsolation ==
  LET ok == Succeeded
      ko == Failed
  IN /\ pc # "loop failed"
     /\ Len(calls) = idx /\ idx <= Len(papers)
     /\ \A k \in 1..Len(calls) : calls[k].paper = papers[k]
     /\ pc \notin {"fetch", "fetch failed", "loop"} => Len(calls) = Len(papers)
     /\ papers_summaries =
          [k \in 1..Len(ok) |-> [paper |-> ok[k].paper, summary |-> ok[k].value]]
     /\ log = [k \in 1..Len(ko) |-> [title |-> ko[k].paper.title, error |-> ko[k].raised]]

\* Three records, the second call raising: two entries, the first and third.
C1_Witness ==
  /\ pc = "build"
  /\ Len(papers) = 3
  /\ calls[1].raised = "" /\ calls[2].raised = "APIError" /\ calls[3].raised = ""
  /\ papers[1] # papers[3]
  /\ Len(papers_summaries) = 2
  /\ papers_summaries[1].paper = papers[1] /\ papers_summaries[2].paper = papers[3]

(***************************************************************************)
(* C2: the body's blocks follow the list, and the list follows the feed.   *)
(***************************************************************************)
\* The feed positions of the records whose call returned.
SucceededAt == SelectSeq([k \in 1..Len(calls) |-> k], LAMBDA k : calls[k].raised = "")

\* C2: for a list of n >= 1 entries the body holds exactly n numbered blocks,
\* numbered 1..n, block i with the title and the URL of entry i; and entry i
\* is the i-th feed entry whose extraction succeeded, so the blocks stand in
\* feed order.
C2_BlocksInListAndFeedOrder ==
  Built /\ papers_summaries # <<>> =>
    LET lines == SplitLines(email_content.body)
        starts == BlockStarts(lines)
        at == SucceededAt
    IN /\ Len(starts) = Len(papers_summaries)
       /\ \A i \in 1..Len(starts) :
            /\ lines[starts[i]] = <<ToString(i), ". ">> \o papers_summaries[i].paper.title
            /\ lines[starts[i] + 1] = <<"URL: ">> \o papers_summaries[i].paper.url
       /\ Len(at) = Len(papers_summaries)
       /\ \A i \in 1..Len(at) :
            /\ papers_summaries[i].paper.title = feed[at[i]].title
            /\ papers_summaries[i].paper.url = feed[at[i]].link

C2_Witness ==
  /\ pc = "done"
  /\ Len(feed) = 3 /\ feed[1] # feed[2]
  /\ Len(papers_summaries) = 2
  /\ calls[1].raised = "" /\ calls[2].raised = "" /\ calls[3].raised # ""
  /\ Len(BlockStarts(SplitLines(email_content.body))) = 2

(***************************************************************************)
(* C3: the placeholder for a missing field.                                *)
(***************************************************************************)
\* What follows the label on the line of field j in the block starting at
\* line number at.
Shown(lines, at, j) == Tail(lines[at + 1 + j])
FieldPresent(summary, j) == HasKey(summary.items, <<SchemaFields[j]>>)
FieldValue(summary, j) ==
  summary.items[CHOOSE n \in 1..Len(summary.items) :
                  summary.items[n][1] = <<SchemaFields[j]>>][2]

\* The block is its six lines and nothing else, and the body names no extra key.
OnlySchemaLines(lines, at) ==
  /\ lines[at + 6] = <<>>
  /\ \A j \in 1..4 : lines[at + 1 + j][1] = Labels[j]
  /\ \A n \in 1..Len(email_content.body) : email_content.body[n] # "notes"

\* C3 as stated: a field's line shows N/A if and only if the mapping lacks
\* the field.
C3_PlaceholderIffMissing ==
  Built =>
    LET lines == SplitLines(email_content.body)
        starts == BlockStarts(lines)
    IN \A i \in 1..Len(papers_summaries) : \A j \in 1..4 :
         (Shown(lines, starts[i], j) = <<"N/A">>)
           <=> ~FieldPresent(papers_summaries[i].summary, j)

\* C3 (amended): a field's line shows N/A when the mapping lacks the field
\* and the text of the mapping's value when it holds the field, so that N/A
\* shows if and only if the field is missing or its own value reads N/A;
\* extra keys never show.
C3_PlaceholderForMissing ==
  Built =>
    LET lines == SplitLines(email_content.body)
        starts == BlockStarts(lines)
    IN \A i \in 1..Len(papers_summaries) :
         LET summary == papers_summaries[i].summary
         IN /\ OnlySchemaLines(lines, starts[i])
            /\ \A j \in 1..4 :
                 LET shown == Shown(lines, starts[i], j)
                 IN /\ ~FieldPresent(summary, j) => shown = <<"N/A">>
                    /\ FieldPresent(summary, j) => shown = py_str(FieldValue(summary, j))
                    /\ (shown = <<"N/A">>)
                         <=> \/ ~FieldPresent(summary, j)
                             \/ py_str(FieldValue(summary, j)) = <<"N/A">>

\* Two fields missing, one present, an extra key.
C3_Witness ==
  /\ pc = "send"
  /\ Len(papers_summaries) = 1
  /\ papers_summaries[1].summary.kind = "dict"
  /\ ~FieldPresent(papers_summaries[1].summary, 1)
  /\ FieldPresent(papers_summaries[1].summary, 2)
  /\ ~FieldPresent(papers_summaries[1].summary, 3)
  /\ HasKey(papers_summaries[1].summary.items, <<"notes">>)
  /\ SplitLines(email_content.body)[5] = <<"Research question: ", "N/A">>
  /\ SplitLines(email_content.body)[6] = <<"Method: ", "v">>

(***************************************************************************)
(* C5: the composer on what the loop can hand it.                          *)
(***************************************************************************)
\* C5: every summary the loop stores is a mapping, and build_email returns a
\* Report without raising.
C5_ComposerNeverRaises ==
  /\ \A i \in 1..Len(papers_summaries) : papers_summaries[i].summary.kind = "dict"
  /\ pc # "build failed"

(***************************************************************************)
(* C6: the empty batch.                                                    *)
(***************************************************************************)
\* C6: for the empty list the subject is the fixed "no new papers" string and
\* the body the one fixed sentence, without header or numbered block; only the
\* empty list gives this Report; a list of entries gives a subject with the
\* count and at least one numbered block, and build_email raises only on a
\* summary that is no mapping.
C6_EmptyBatch ==
  /\ Built =>
       LET lines == SplitLines(email_content.body)
           starts == BlockStarts(lines)
       IN /\ papers_summaries = <<>> <=> email_content = NoPapersReport
          /\ papers_summaries = <<>> =>
               /\ email_content.subject = <<"NBER IO Digest: No new papers this week">>
               /\ lines = << <<"There are no new Industrial Organization papers this week.">> >>
               /\ starts = <<>>
          /\ papers_summaries # <<>> =>
               /\ email_content.subject =
                    <<"NBER IO Digest: ", ToString(Len(papers_summaries)), " new papers">>
               /\ Len(starts) >= 1
               /\ lines[1] = <<"This week's NBER Industrial Organization papers:">>
  /\ pc = "build failed" =>
       \E i \in 1..Len(papers_summaries) : papers_summaries[i].summary.kind # "dict"

C6_Witness ==
  /\ pc = "send"
  /\ papers_summaries = <<>>
  /\ Len(papers) = 2 /\ Len(log) = 2
  /\ email_content = NoPapersReport

(***************************************************************************)
(* C7: delivery comes last, once, or not at all.                           *)
(***************************************************************************)
\* C7: send_email is called at most once, only after every record was
\* attempted and build_email returned the Report it is called with; a run
\* that stops on an exception outside the per-record try has sent nothing.
C7_SendOnceAfterBatch ==
  /\ Len(sent) <= 1
  /\ sent # <<>> =>
       /\ pc = "done"
       /\ Len(calls) = Len(papers)
       /\ email_content # NoEmail
       /\ sent[1] = email_content
  /\ pc \in {"fetch", "loop", "build", "send"} => sent = <<>>
  /\ pc \in {"fetch failed", "loop failed", "build failed", "send failed"} => sent = <<>>

C7_Witness ==
  /\ pc = "done"
  /\ Len(papers) = 2 /\ Len(calls) = 2 /\ Len(log) = 1
  /\ sent = <<email_content>>

(***************************************************************************)
(* C8: the count in the subject.                                           *)
(***************************************************************************)
\* C8: for a list of entries the subject carries a count, which is the number
\* of numbered blocks in the body and the number of records whose extraction
\* succeeded in this run.
C8_SubjectCount ==
  Built /\ papers_summaries # <<>> =>
    LET starts == BlockStarts(SplitLines(email_content.body))
    IN /\ email_content.subject = <<"NBER IO Digest: ", ToString(Len(starts)), " new papers">>
       /\ Len(starts) = Len(Succeeded)

\* One success among three records: the subject says 1.
C8_Witness ==
  /\ pc = "done"
  /\ Len(papers) = 3 /\ Len(Succeeded) = 1
  /\ email_content.subject = <<"NBER IO Digest: ", "1", " new papers">>

(***************************************************************************)
(* C9: the lines of a block and the gap between blocks.                    *)
(***************************************************************************)
\* The six lines of the block starting at line number at stand together in
\* the fixed order, none empty.
SixLines(lines, at) ==
  /\ at + 5 <= Len(lines)
  /\ IsNumbered(lines[at])
  /\ lines[at + 1][1] = "URL: "
  /\ \A j \in 1..4 : lines[at + 1 + j][1] = Labels[j]
  /\ \A k \in at..(at + 5) : lines[k] # <<>>

\* Exactly gap empty lines between the last line of the block starting at
\* line number at and the next block's first line, at line number next.
GapBetween(lines, at, next, gap) ==
  /\ next = at + 6 + gap
  /\ \A k \in (at + 6)..(next - 1) : lines[k] = <<>>

\* C9 as stated: exactly one empty line between consecutive blocks.
C9_OneEmptyLineBetweenBlocks ==
  Built /\ Len(papers_summaries) >= 2 =>
    LET lines == SplitLines(email_content.body)
        starts == BlockStarts(lines)
    IN /\ \A i \in 1..Len(starts) : SixLines(lines, starts[i])
       /\ \A i \in 1..(Len(starts) - 1) : GapBetween(lines, starts[i], starts[i + 1], 1)

\* C9 (amended): the six lines of a block stand together in the fixed order
\* with no empty line between them, and exactly two empty lines lie between
\* the Main result line of block i and the title line of block i+1.
C9_TwoEmptyLinesBetweenBlocks ==
  Built /\ Len(papers_summaries) >= 2 =>
    LET lines == SplitLines(email_content.body)
        starts == BlockStarts(lines)
    IN /\ Len(starts) = Len(papers_summaries)
       /\ \A i \in 1..Len(starts) : SixLines(lines, starts[i])
       /\ \A i \in 1..(Len(starts) - 1) : GapBetween(lines, starts[i], starts[i + 1], 2)

C9_Witness ==
  /\ pc = "send"
  /\ Len(papers_summaries) = 2
  /\ LET starts == BlockStarts(SplitLines(email_content.body))
     IN Len(starts) = 2 /\ starts[2] = starts[1] + 8

(***************************************************************************)
(* C10: failed extractions do not block the delivery.                      *)
(***************************************************************************)
\* C10: once the loop is entered the run goes on to send_email unless
\* build_email or send_email raises; a finished run has called send_email
\* exactly once; and when every record's extraction failed, what it sent is
\* the "no new papers" Report of an empty feed.
C10_FailureNeverBlocksDelivery ==
  /\ [](pc = "loop" => <>(pc \in {"done", "build failed", "send failed"}))
  /\ [](pc = "done" => Len(sent) = 1)
  /\ [](pc = "done" /\ Succeeded = <<>> => sent = <<NoPapersReport>>)

\* Two records, both failed, and the "no new papers" Report sent.
C10_Witness ==
  /\ pc = "done"
  /\ Len(papers) = 2 /\ Len(Failed) = 2
  /\ sent = <<NoPapersReport>>

====
